---- MODULE Spec2Model ----
(***************************************************************************)
(* A model of code/hw1-q2.py: the regularised closed-form solver           *)
(* (solve_analytically), the two online regression models                  *)
(* (LinearRegression, NeuralRegression), the shared train_epoch/evaluate   *)
(* of _RegressionModel, and the training loop of main().                   *)
(*                                                                         *)
(* Numbers.  Features, targets, weights and the learning rate are drawn    *)
(* from small sets of integers and the arithmetic is exact.  The solver's  *)
(* regularisation factor 0.0001 is kept exact too: a number of the solver  *)
(* is a polynomial in lambda = 0.0001 with integer coefficients (a         *)
(* function 0..PolyDeg -> Int).  Square roots (the RMSE, the Euclidean     *)
(* distance) are kept unevaluated: the value records the radicand.         *)
(***************************************************************************)
EXTENDS Integers, Sequences, FiniteSets

\* ------------------------------------------------------------------ bounds
MaxPoints == 2
MaxFeats == 2
MaxHidden == 2
MaxEpochs == 2
TestPoints == 1

FeatureVals == {0, 1}
TargetVals == {0, 1}
InitWeightVals == {-1, 1}
LearningRates == {0, 1}
TestFeatureVals == {1}
TestTargetVals == {0}

\* ----------------------------------------------------------- vector helpers
\* an array held by value: the sequence of f's entries
Array(f) == SubSeq(f, 1, Len(f))

RECURSIVE SumSeq(_)
SumSeq(s) == IF Len(s) = 0 THEN 0 ELSE s[1] + SumSeq(Tail(s))

\* np.dot of two 1-D arrays of the same length
Dot(a, b) == SumSeq([k \in 1..Len(a) |-> a[k] * b[k]])

\* np.dot of a 2-D array and a 1-D array: one dot product per row
MatVec(M, v) == Array([r \in 1..Len(M) |-> Dot(M[r], v)])

\* numpy's shape rule for np.dot(M, v): the last axis of M is as long as v
DotShapesOK(M, v) == \A r \in 1..Len(M) : Len(M[r]) = Len(v)

\* np.maximum(z, 0), elementwise
Relu(z) == Array([k \in 1..Len(z) |-> IF z[k] > 0 THEN z[k] ELSE 0])

\* a[:, None].dot(b[:, None].T): the outer product, Len(a) x Len(b)
Outer(a, b) == Array([r \in 1..Len(a) |-> Array([c \in 1..Len(b) |-> a[r] * b[c]])])

\* np.transpose of a 2-D array with nr rows and nc columns
Transpose(M, nr, nc) == Array([c \in 1..nc |-> Array([r \in 1..nr |-> M[r][c]])])

Min(a, b) == IF a <= b THEN a ELSE b

\* all n x d arrays over the set S
Vectors(n, S) == [1..n -> S]
Matrices(n, d, S) == [1..n -> [1..d -> S]]

\* ------------------------------------------------- exact solver arithmetic
\* A number of the solver: c[0] + c[1]*lambda + ... + c[PolyDeg]*lambda^PolyDeg
PolyDeg == MaxFeats
PolyConst(c) == [k \in 0..PolyDeg |-> IF k = 0 THEN c ELSE 0]
\* the regularisation factor 0.0001
Lambda == [k \in 0..PolyDeg |-> IF k = 1 THEN 1 ELSE 0]
PolyAdd(p, q) == [k \in 0..PolyDeg |-> p[k] + q[k]]
PolyNeg(p) == [k \in 0..PolyDeg |-> 0 - p[k]]
PolyMul(p, q) == [k \in 0..PolyDeg |-> SumSeq([i \in 1..(k + 1) |-> p[i - 1] * q[k - (i - 1)]])]
PolyIsZero(p) == \A k \in 0..PolyDeg : p[k] = 0

RECURSIVE PolySum(_)
PolySum(s) == IF Len(s) = 0 THEN PolyConst(0) ELSE PolyAdd(s[1], PolySum(Tail(s)))

\* M without row i and column j (M is n x n)
Minor(M, i, j, n) ==
    [r \in 1..(n - 1) |-> [c \in 1..(n - 1) |->
        M[IF r < i THEN r ELSE r + 1][IF c < j THEN c ELSE c + 1]]]

Signed(i, j, p) == IF (i + j) % 2 = 0 THEN p ELSE PolyNeg(p)

\* determinant of the n x n matrix M, by expansion along the first row
RECURSIVE Det(_, _)
Det(M, n) ==
    IF n = 1 THEN M[1][1]
    ELSE PolySum([j \in 1..n |->
             Signed(1, j, PolyMul(M[1][j], Det(Minor(M, 1, j, n), n - 1)))])

\* adjugate of the n x n matrix M: inverse(M) = Adjugate(M) / Det(M)
Adjugate(M, n) ==
    [i \in 1..n |-> [j \in 1..n |->
        IF n = 1 THEN PolyConst(1) ELSE Signed(i, j, Det(Minor(M, j, i, n), n - 1))]]

\* np.identity(k) * 0.0001
ScaledIdentity(k) ==
    [r \in 1..k |-> [c \in 1..k |-> IF r = c THEN Lambda ELSE PolyConst(0)]]

\* np.matmul(xt, X): the d x d Gram matrix of the n x d array X
Gram(X, n, d) ==
    LET xt == Transpose(X, n, d)
    IN  [r \in 1..d |-> [c \in 1..d |->
            PolyConst(SumSeq([p \in 1..n |-> xt[r][p] * X[p][c]]))]]

\* numpy's broadcasting of A (d x d) + R (k x k): equal shapes add
\* elementwise, a 1 x 1 array is added to every entry, anything else raises
BroadcastOK(d, k) == k = d \/ k = 1 \/ d = 1
BroadcastAdd(A, d, R, k) ==
    [r \in 1..d |-> [c \in 1..d |->
        PolyAdd(A[r][c], IF k = d THEN R[r][c] ELSE R[1][1])]]

\* solve_analytically(X, y) for an n x d array X: the outcome is an exception
\* name, or the regularised matrix and the weight vector.  A weight is the
\* exact quotient num / den.
solve_analytically(X, y, n, d) ==
    LET xt == Transpose(X, n, d)
        k == Min(n, d)
        regulization == ScaledIdentity(k)
    IN  IF ~BroadcastOK(d, k)
        THEN [status |-> "ValueError"]
        ELSE LET A == BroadcastAdd(Gram(X, n, d), d, regulization, k)
                 det == Det(A, d)
             IN  IF PolyIsZero(det)
                 THEN [status |-> "LinAlgError", regularized |-> A]
                 ELSE LET adj == Adjugate(A, d)
                          invxt == [r \in 1..d |-> [c \in 1..n |->
                                      PolySum([j \in 1..d |->
                                          PolyMul(adj[r][j], PolyConst(xt[j][c]))])]]
                          w == [r \in 1..d |->
                                  [num |-> PolySum([c \in 1..n |->
                                              PolyMul(invxt[r][c], PolyConst(y[c]))]),
                                   den |-> det]]
                      IN  [status |-> "ok", regularized |-> A, w |-> w]

\* distance(analytic_solution, model_params): the Euclidean norm of the
\* difference; the value records the difference vector, each entry num / den
distance(analytic_solution, model_params) ==
    [norm_of |-> [r \in 1..Len(analytic_solution) |->
        [num |-> PolyAdd(analytic_solution[r].num,
                         PolyNeg(PolyMul(analytic_solution[r].den,
                                         PolyConst(model_params[r])))),
         den |-> analytic_solution[r].den]]]

\* --------------------------------------------------------- LinearRegression
\* LinearRegression.__init__
LinearInit(n_features) == Array([k \in 1..n_features |-> 0])

\* LinearRegression.predict on one row
LinearPredictRow(w, x) == Dot(x, w)

\* LinearRegression.predict on an array of rows
LinearPredict(w, X) == MatVec(X, w)

\* a slip of the guard: update only when the prediction is too high
LinearGuardOverPredict(y_hat, y_i) == y_hat > y_i

\* the guard of update_weight: "update if our prediction was wrong"
LinearGuard(y_hat, y_i) == y_hat # y_i

\* a slip of the gradient: the minus sign of -x_i dropped
LinearGradientSignSlip(x_i, y_i, y_hat) ==
    Array([k \in 1..Len(x_i) |-> x_i[k] * (y_i - y_hat)])

\* the gradient dL = np.dot(-x_i, (y_i - y_hat))
LinearGradient(x_i, y_i, y_hat) ==
    Array([k \in 1..Len(x_i) |-> (0 - x_i[k]) * (y_i - y_hat)])

\* LinearRegression.update_weight: the weights it leaves
LinearUpdateWeight(w, x_i, y_i, learning_rate) ==
    LET y_hat == LinearPredictRow(w, x_i)
    IN  IF LinearGuard(y_hat, y_i)
        THEN LET dL == LinearGradient(x_i, y_i, y_hat)
             IN  Array([k \in 1..Len(w) |-> w[k] - learning_rate * dL[k]])
        ELSE w

\* --------------------------------------------------------- NeuralRegression
\* the forward pass of update_weight and predict on one row
NNForward(p, x_i) ==
    LET z1 == Array([j \in 1..Len(p.w1) |-> Dot(p.w1[j], x_i) + p.b1[j]])
        h1 == Relu(z1)
        z2 == Array([o \in 1..1 |-> Dot(p.w2[o], h1) + p.b2[o]])
        h2 == Relu(z2)
    IN  [z1 |-> z1, h1 |-> h1, z2 |-> z2, h2 |-> h2]

\* a slip of the output gradient: masked by the output ReLU's derivative
NNOutputGradMasked(f, y_i) ==
    Array([o \in 1..1 |-> (f.h2[o] - y_i) * (IF f.z2[o] > 0 THEN 1 ELSE 0)])

\* grad_z2 = h2 - y_i
NNOutputGrad(f, y_i) == Array([o \in 1..1 |-> f.h2[o] - y_i])

\* a slip of the hidden gradient: the ReLU mask left out
NNHiddenGradUnmasked(grad_h1, h1) == Array([j \in 1..Len(h1) |-> grad_h1[j]])

\* grad_z1 = grad_h1 * (1*(h1>0))
NNHiddenGrad(grad_h1, h1) ==
    Array([j \in 1..Len(h1) |-> grad_h1[j] * (IF h1[j] > 0 THEN 1 ELSE 0)])

\* NeuralRegression.update_weight: the parameters it leaves
NNUpdateWeight(p, x_i, y_i, learning_rate) ==
    LET f == NNForward(p, x_i)
        hidden == Len(p.w1)
        grad_z2 == NNOutputGrad(f, y_i)
        grad_W2 == Outer(grad_z2, f.h1)
        grad_b2 == grad_z2
        grad_h1 == MatVec(Transpose(p.w2, 1, hidden), grad_z2)
        grad_z1 == NNHiddenGrad(grad_h1, f.h1)
        grad_W1 == Outer(grad_z1, x_i)
        grad_b1 == grad_z1
    IN  [w1 |-> Array([j \in 1..hidden |-> Array([k \in 1..Len(x_i) |->
                    p.w1[j][k] - learning_rate * grad_W1[j][k]])]),
         b1 |-> Array([j \in 1..hidden |-> p.b1[j] - learning_rate * grad_b1[j]]),
         w2 |-> Array([o \in 1..1 |-> Array([j \in 1..hidden |->
                    p.w2[o][j] - learning_rate * grad_W2[o][j]])]),
         b2 |-> Array([o \in 1..1 |-> p.b2[o] - learning_rate * grad_b2[o]])]

\* NeuralRegression.predict: z2[0] of every row, in row order
NNPredict(p, X) == Array([r \in 1..Len(X) |-> NNForward(p, X[r]).z2[1]])

\* --------------------------------------------------------- _RegressionModel
\* model.predict(X), or the ValueError np.dot raises on mismatched shapes
PredictShapesOK(kind, params, X) ==
    IF kind = "linear_regression"
    THEN DotShapesOK(X, params.w)
    ELSE \A r \in 1..Len(X) : DotShapesOK(params.w1, X[r])

Predict(kind, params, X) ==
    IF kind = "linear_regression" THEN LinearPredict(params.w, X)
    ELSE NNPredict(params, X)

\* _RegressionModel.evaluate: sqrt(squared_error / y.shape[0]); the value
\* records the squared error and the divisor
evaluate(kind, params, X, y) ==
    LET yhat == Predict(kind, params, X)
        error == Array([r \in 1..Len(y) |-> yhat[r] - y[r]])
        squared_error == Dot(error, error)
    IN  [sqrt_of |-> <<squared_error, Len(y)>>]

\* a slip of the call: the learning_rate keyword is not passed on and the
\* update runs at a fixed non-zero rate
update_weight_FixedRate(kind, params, x_i, y_i, learning_rate) ==
    IF kind = "linear_regression"
    THEN [w |-> LinearUpdateWeight(params.w, x_i, y_i, 1)]
    ELSE NNUpdateWeight(params, x_i, y_i, 1)

\* model.update_weight(x_i, y_i, learning_rate) of the active model
update_weight(kind, params, x_i, y_i, learning_rate) ==
    IF kind = "linear_regression"
    THEN [w |-> LinearUpdateWeight(params.w, x_i, y_i, learning_rate)]
    ELSE NNUpdateWeight(params, x_i, y_i, learning_rate)

\* the pair train_epoch's zip(X, y) yields at position k
ZipPair(X, y, k) == <<X[k], y[k]>>

\* -------------------------------------------------------------------- state
VARIABLES
    model,              \* opt.model: "linear_regression" or "nn"
    opt_epochs,         \* opt.epochs
    learning_rate,      \* opt.learning_rate
    train_X, train_y,   \* the training split, reordered every epoch
    test_X, test_y,     \* the test split
    analytic_solution,  \* solve_analytically's vector, or None
    params,             \* the model's parameters: w, or w1, b1, w2, b2
    pc,                 \* main's position
    epoch,              \* epochs completed
    i,                  \* rows train_epoch has consumed in the current epoch
    train_losses, test_losses, dist_opt,
    error,              \* the uncaught exception that ended main, if any
    calls,              \* history: the update_weight calls of the current epoch
    init_params,        \* history: the parameters the constructor left
    orig_train,         \* history: the training split as loaded
    orig_test,          \* history: the test split as loaded
    solved              \* history: the outcome of solve_analytically

vars == <<model, opt_epochs, learning_rate, train_X, train_y, test_X, test_y,
          analytic_solution, params, pc, epoch, i, train_losses, test_losses,
          dist_opt, error, calls, init_params, orig_train, orig_test, solved>>

None == <<>>
NoError == [exc |-> "none", at |-> "none"]
Unconstructed == [unconstructed |-> TRUE]

n_points == Len(train_X)
n_feats == Len(train_X[1])

\* main up to the training loop's data: the options parsed and the four
\* arrays loaded; nothing checks the test split's shape against the
\* training split's
Init ==
    /\ model \in {"linear_regression", "nn"}
    /\ opt_epochs \in 0..MaxEpochs
    /\ learning_rate \in LearningRates
    /\ \E n \in 1..MaxPoints, d \in 1..MaxFeats :
          /\ train_X \in Matrices(n, d, FeatureVals)
          /\ train_y \in Vectors(n, TargetVals)
    /\ \E m \in 1..TestPoints, dt \in 1..MaxFeats :
          /\ test_X \in Matrices(m, dt, TestFeatureVals)
          /\ test_y \in Vectors(m, TestTargetVals)
    /\ analytic_solution = None
    /\ params = Unconstructed
    /\ pc = "solve"
    /\ epoch = 0
    /\ i = 0
    /\ train_losses = <<>>
    /\ test_losses = <<>>
    /\ dist_opt = <<>>
    /\ error = NoError
    /\ calls = <<>>
    /\ init_params = Unconstructed
    /\ orig_train = <<train_X, train_y>>
    /\ orig_test = <<test_X, test_y>>
    /\ solved = [status |-> "not called"]

data_vars == <<train_X, train_y, test_X, test_y, orig_train, orig_test>>
hist_vars == <<calls, init_params, solved>>
opt_vars == <<model, opt_epochs, learning_rate>>
loss_vars == <<train_losses, test_losses, dist_opt>>

\* analytic_solution = solve_analytically(train_X, train_y) for the linear
\* model, None otherwise; an exception of the solver ends main
Solve ==
    /\ pc = "solve"
    /\ IF model = "linear_regression"
       THEN LET r == solve_analytically(train_X, train_y, n_points, n_feats)
            IN  /\ solved' = r
                /\ IF r.status = "ok"
                   THEN /\ analytic_solution' = r.w
                        /\ pc' = "construct"
                        /\ error' = error
                   ELSE /\ analytic_solution' = analytic_solution
                        /\ pc' = "failed"
                        /\ error' = [exc |-> r.status, at |-> "solve_analytically"]
       ELSE /\ analytic_solution' = None
            /\ pc' = "construct"
            /\ error' = error
            /\ solved' = solved
    /\ UNCHANGED <<data_vars, opt_vars, loss_vars, params, epoch, i, calls, init_params>>

\* NeuralRegression.__init__ for some draw of the normal distribution
NNInit(hidden, n_features, w1, w2) ==
    [w1 |-> w1, b1 |-> Array([j \in 1..hidden |-> 0]), w2 |-> w2, b2 |-> <<0>>]

\* model = LinearRegression(n_feats) or NeuralRegression(n_feats, opt.hidden_size)
Construct ==
    /\ pc = "construct"
    /\ IF model = "linear_regression"
       THEN params' = [w |-> LinearInit(n_feats)]
       ELSE \E hidden \in 1..MaxHidden :
              \E w1 \in Matrices(hidden, n_feats, InitWeightVals),
                 w2 \in Matrices(1, hidden, InitWeightVals) :
                  params' = NNInit(hidden, n_feats, w1, w2)
    /\ init_params' = params'
    /\ pc' = "loop"
    /\ UNCHANGED <<data_vars, opt_vars, loss_vars, analytic_solution, epoch, i, calls, error, solved>>

\* a slip of the shuffle: indices drawn with replacement
TrainOrdersWithReplacement(n) == [1..n -> 1..n]

\* all orders np.random.permutation(n) can return
TrainOrders(n) == {f \in [1..n -> 1..n] : \A a, b \in 1..n : a # b => f[a] # f[b]}

\* X[train_order]: row k of the result is row train_order[k] of X
Reorder(X, train_order) == Array([k \in 1..Len(train_order) |-> X[train_order[k]]])

\* the loop takes the next epoch: both training arrays are reordered by one
\* permutation and train_epoch is entered
Shuffle ==
    /\ pc = "loop"
    /\ epoch < opt_epochs
    /\ \E train_order \in TrainOrders(n_points) :
          /\ train_X' = Reorder(train_X, train_order)
          /\ train_y' = Reorder(train_y, train_order)
    /\ i' = 0
    /\ calls' = <<>>
    /\ pc' = "train"
    /\ UNCHANGED <<test_X, test_y, orig_train, orig_test, opt_vars, loss_vars,
                   analytic_solution, params, epoch, error, init_params, solved>>

\* a slip of the loop: the last row is never consumed
RowsLeftDropsLast(k, n) == k + 1 < n

\* the rows train_epoch's loop still has to consume
RowsLeft(k, n) == k < n

\* one iteration of train_epoch's loop: update_weight on the next pair
TrainStep ==
    /\ pc = "train"
    /\ RowsLeft(i, n_points)
    /\ LET pair == ZipPair(train_X, train_y, i + 1)
           post == update_weight(model, params, pair[1], pair[2], learning_rate)
       IN  /\ params' = post
           /\ calls' = Append(calls, [x |-> pair[1], y |-> pair[2],
                                      pre |-> params, post |-> post])
    /\ i' = i + 1
    /\ UNCHANGED <<data_vars, opt_vars, loss_vars, analytic_solution, pc, epoch,
                   error, init_params, solved>>

\* train_epoch has returned: train_losses.append(model.evaluate(train_X, train_y))
EvalTrain ==
    /\ pc = "train"
    /\ ~RowsLeft(i, n_points)
    /\ train_losses' = Append(train_losses, evaluate(model, params, train_X, train_y))
    /\ pc' = "eval_test"
    /\ UNCHANGED <<data_vars, opt_vars, test_losses, dist_opt, analytic_solution,
                   params, epoch, i, error, hist_vars>>

\* test_losses.append(model.evaluate(test_X, test_y)); predict raises
\* ValueError when the test rows do not fit the parameters
EvalTest ==
    /\ pc = "eval_test"
    /\ IF PredictShapesOK(model, params, test_X)
       THEN /\ test_losses' = Append(test_losses, evaluate(model, params, test_X, test_y))
            /\ pc' = "dist"
            /\ error' = error
       ELSE /\ test_losses' = test_losses
            /\ pc' = "failed"
            /\ error' = [exc |-> "ValueError", at |-> "evaluate(test)"]
    /\ UNCHANGED <<data_vars, opt_vars, train_losses, dist_opt, analytic_solution,
                   params, epoch, i, hist_vars>>

\* the distance to the analytic solution is recorded when there is one, and
\* the epoch ends
RecordDistance ==
    /\ pc = "dist"
    /\ dist_opt' = IF analytic_solution # None
                   THEN Append(dist_opt, distance(analytic_solution, params.w))
                   ELSE dist_opt
    /\ epoch' = epoch + 1
    /\ pc' = "loop"
    /\ UNCHANGED <<data_vars, opt_vars, train_losses, test_losses, analytic_solution,
                   params, i, error, hist_vars>>

\* the loop has run opt.epochs epochs
Finish ==
    /\ pc = "loop"
    /\ epoch >= opt_epochs
    /\ pc' = "done"
    /\ UNCHANGED <<data_vars, opt_vars, loss_vars, analytic_solution, params, epoch,
                   i, error, hist_vars>>

Next ==
    \/ Solve
    \/ Construct
    \/ Shuffle
    \/ TrainStep
    \/ EvalTrain
    \/ EvalTest
    \/ RecordDistance
    \/ Finish

Spec == Init /\ [][Next]_vars

\* ------------------------------------------------------------------- claims
Constructed == init_params # Unconstructed
IsLinear == model = "linear_regression" /\ Constructed
IsNN == model = "nn" /\ Constructed

\* train_epoch has returned in the current epoch and no Shuffle has followed
TrainEpochReturned ==
    \/ pc \in {"eval_test", "dist"}
    \/ pc \in {"loop", "done"} /\ epoch > 0
    \/ pc = "failed" /\ error.at = "evaluate(test)"

\* how often the pair occurs among the rows of (X, y)
PairCount(X, y, pair) == Cardinality({k \in 1..Len(X) : <<X[k], y[k]>> = pair})

SameMultiset(X1, y1, X2, y2) ==
    /\ Len(X1) = Len(X2)
    /\ Len(y1) = Len(y2)
    /\ \A k \in 1..Len(X1) :
          PairCount(X1, y1, <<X1[k], y1[k]>>) = PairCount(X2, y2, <<X1[k], y1[k]>>)
    /\ \A k \in 1..Len(X2) :
          PairCount(X1, y1, <<X2[k], y2[k]>>) = PairCount(X2, y2, <<X2[k], y2[k]>>)

CallsX == [k \in 1..Len(calls) |-> calls[k].x]
CallsY == [k \in 1..Len(calls) |-> calls[k].y]

\* C1: one call of train_epoch invokes update_weight once per row, for row 0,
\* row 1, ... in the given order, each update starting from the parameters the
\* previous one left; when it returns it has made exactly n calls and the
\* multiset of pairs passed equals the multiset of rows supplied.
C1_TrainEpochSequential ==
    (pc = "train" \/ TrainEpochReturned) =>
        /\ Len(calls) = i
        /\ i <= n_points
        /\ \A k \in 1..Len(calls) :
              /\ calls[k].x = train_X[k]
              /\ calls[k].y = train_y[k]
        /\ \A k \in 1..(Len(calls) - 1) : calls[k + 1].pre = calls[k].post
        /\ (Len(calls) > 0 => params = calls[Len(calls)].post)
        /\ (TrainEpochReturned =>
              /\ Len(calls) = n_points
              /\ SameMultiset(CallsX, CallsY, train_X, train_y))

\* C1 witness: train_epoch has returned after two updates on two different
\* rows, the second starting from parameters the first one changed.
C1_Witness ==
    /\ pc = "eval_test"
    /\ Len(calls) = 2
    /\ calls[1].x # calls[2].x
    /\ calls[1].y # calls[2].y
    /\ calls[1].post # calls[1].pre
    /\ calls[2].post # calls[2].pre

\* C2: after any number of epochs the training split is a permutation of the
\* loaded one with the feature/target pairing kept (same size, same multiset
\* of pairs), and the test split is exactly as loaded.
C2_SplitsPreserved ==
    /\ SameMultiset(train_X, train_y, orig_train[1], orig_train[2])
    /\ Len(train_X) = Len(orig_train[1])
    /\ test_X = orig_test[1]
    /\ test_y = orig_test[2]

\* C2 witness: two epochs are done and the training rows are in another order
\* than loaded.
C2_Witness ==
    /\ epoch = 2
    /\ train_X # orig_train[1]
    /\ train_y # orig_train[2]

\* the prediction w . x_i, written out
PredictionOf(w, x) == SumSeq([k \in 1..Len(x) |-> w[k] * x[k]])

\* the textbook delta rule: w + learning_rate * (y_i - y_hat) * x_i
DeltaRule(w, x, y, lr) ==
    [k \in 1..Len(w) |-> w[k] + lr * (y - PredictionOf(w, x)) * x[k]]

SameVector(a, b) == Len(a) = Len(b) /\ \A k \in 1..Len(a) : a[k] = b[k]

\* C3: the linear weights start at zero, and every update computes
\* y_hat = w . x_i from the current w, sets w to
\* w + learning_rate * (y_i - y_hat) * x_i when y_hat # y_i, and leaves w
\* unchanged when y_hat = y_i.
C3_LinearUpdate ==
    IsLinear =>
        /\ \A k \in 1..Len(init_params.w) : init_params.w[k] = 0
        /\ Len(init_params.w) = n_feats
        /\ \A c \in 1..Len(calls) :
              LET u == calls[c]
                  y_hat == PredictionOf(u.pre.w, u.x)
              IN  IF y_hat # u.y
                  THEN SameVector(u.post.w, DeltaRule(u.pre.w, u.x, u.y, learning_rate))
                  ELSE u.post.w = u.pre.w

\* C3 witness: in one epoch, an update with a wrong prediction moved w and a
\* later one with an exactly right prediction, from a non-zero w on a
\* non-zero row, left it alone.
C3_Witness ==
    /\ IsLinear
    /\ Len(calls) = 2
    /\ PredictionOf(calls[1].pre.w, calls[1].x) # calls[1].y
    /\ calls[1].post # calls[1].pre
    /\ PredictionOf(calls[2].pre.w, calls[2].x) = calls[2].y
    /\ calls[2].y # 0
    /\ calls[2].post = calls[2].pre

Hidden(p) == Len(p.w1)
Z1(p, x, j) == SumSeq([k \in 1..Len(x) |-> p.w1[j][k] * x[k]]) + p.b1[j]
H1(p, x, j) == IF Z1(p, x, j) > 0 THEN Z1(p, x, j) ELSE 0
Z2(p, x) == SumSeq([j \in 1..Hidden(p) |-> p.w2[1][j] * H1(p, x, j)]) + p.b2[1]
H2(p, x) == IF Z2(p, x) > 0 THEN Z2(p, x) ELSE 0
GradZ2(p, x, y) == H2(p, x) - y
GradZ1(p, x, y, j) == IF H1(p, x, j) > 0 THEN p.w2[1][j] * GradZ2(p, x, y) ELSE 0

\* C4: every neural update computes z1, h1, z2, h2 and the gradients
\* grad_z2 = h2 - y_i (no mask at the output), grad_W2 = grad_z2 (x) h1,
\* grad_b2 = grad_z2, grad_z1 = (W2^T grad_z2) masked by [h1 > 0],
\* grad_W1 = grad_z1 (x) x_i, grad_b1 = grad_z1 from the parameters held
\* before the update, subtracts learning_rate times each gradient from W1,
\* b1, W2, b2, and changes nothing else.
C4_NeuralUpdate ==
    IsNN =>
        \A c \in 1..Len(calls) :
            LET p == calls[c].pre
                q == calls[c].post
                x == calls[c].x
                y == calls[c].y
            IN  /\ DOMAIN q = {"w1", "b1", "w2", "b2"}
                /\ Len(q.w1) = Hidden(p) /\ Len(q.b1) = Hidden(p)
                /\ Len(q.w2) = 1 /\ Len(q.w2[1]) = Hidden(p) /\ Len(q.b2) = 1
                /\ \A j \in 1..Hidden(p) :
                      /\ Len(q.w1[j]) = Len(x)
                      /\ \A k \in 1..Len(x) :
                            q.w1[j][k] = p.w1[j][k] - learning_rate * (GradZ1(p, x, y, j) * x[k])
                      /\ q.b1[j] = p.b1[j] - learning_rate * GradZ1(p, x, y, j)
                      /\ q.w2[1][j] = p.w2[1][j] - learning_rate * (GradZ2(p, x, y) * H1(p, x, j))
                /\ q.b2[1] = p.b2[1] - learning_rate * GradZ2(p, x, y)

\* C4 witness: an update with a non-zero learning rate on a two-feature row,
\* with one hidden unit active and one inactive and a non-positive output
\* pre-activation, that moved W1 and W2.
C4_Witness ==
    /\ IsNN
    /\ learning_rate # 0
    /\ \E c \in 1..Len(calls) :
          LET p == calls[c].pre
              x == calls[c].x
          IN  /\ Len(x) = 2
              /\ Hidden(p) = 2
              /\ \E j \in 1..2 : Z1(p, x, j) > 0
              /\ \E j \in 1..2 : Z1(p, x, j) <= 0
              /\ Z2(p, x) < 0
              /\ calls[c].y # 0
              /\ calls[c].post.w1 # p.w1
              /\ calls[c].post.w2 # p.w2

\* C5: with learning_rate = 0 the neural parameters equal their initial
\* values after any number of updates and epochs, for any hidden size.
C5_ZeroRateFreezes ==
    (IsNN /\ learning_rate = 0) => params = init_params

\* C5 witness: two epochs at learning rate 0 with one hidden unit are done,
\* and the last epoch held an update with non-zero gradients.
C5_Witness ==
    /\ IsNN
    /\ learning_rate = 0
    /\ pc = "done"
    /\ epoch = 2
    /\ Hidden(params) = 1
    /\ \E c \in 1..Len(calls) :
          /\ GradZ2(calls[c].pre, calls[c].x, calls[c].y) # 0
          /\ GradZ1(calls[c].pre, calls[c].x, calls[c].y, 1) # 0
          /\ \E k \in 1..Len(calls[c].x) : calls[c].x[k] # 0

\* C10: a neural update leaves row j of W1, entry j of b1 and entry j of W2
\* unchanged for every hidden unit j that is inactive on the example
\* (z1_j <= 0).
C10_InactiveUnitsFrozen ==
    IsNN =>
        \A c \in 1..Len(calls) :
            \A j \in 1..Hidden(calls[c].pre) :
                Z1(calls[c].pre, calls[c].x, j) <= 0 =>
                    /\ calls[c].post.w1[j] = calls[c].pre.w1[j]
                    /\ calls[c].post.b1[j] = calls[c].pre.b1[j]
                    /\ calls[c].post.w2[1][j] = calls[c].pre.w2[1][j]

\* C10 witness: an update with a non-zero learning rate and a non-zero output
\* gradient on a non-zero row, where one unit is inactive with a non-zero
\* output weight and the other unit is active and moved.
C10_Witness ==
    /\ IsNN
    /\ learning_rate # 0
    /\ \E c \in 1..Len(calls) :
          LET p == calls[c].pre
              x == calls[c].x
          IN  /\ Hidden(p) = 2
              /\ \E k \in 1..Len(x) : x[k] # 0
              /\ GradZ2(p, x, calls[c].y) # 0
              /\ \E j \in 1..2 : Z1(p, x, j) < 0 /\ p.w2[1][j] # 0
              /\ \E j \in 1..2 : Z1(p, x, j) > 0 /\ calls[c].post.w1[j] # p.w1[j]
              /\ calls[c].post.b2 # p.b2

\* C6: a feature dimensionality that does not fit the model's parameters is
\* rejected before any update is attempted: when main ends in that failure,
\* no update has been made and the parameters are the initial ones.
C6_RejectedBeforeUpdate ==
    (pc = "failed" /\ error.at = "evaluate(test)") =>
        /\ Len(calls) = 0
        /\ params = init_params

\* lambda * I of the same n_features x n_features shape as XtX, added to XtX
RidgeMatrix(X) ==
    [r \in 1..Len(X[1]) |-> [c \in 1..Len(X[1]) |->
        PolyAdd(PolyConst(SumSeq([p \in 1..Len(X) |-> X[p][r] * X[p][c]])),
                IF r = c THEN Lambda ELSE PolyConst(0))]]

\* C7: for every n_points x n_features training matrix, n_points < n_features
\* included, the solver forms XtX + lambda * I with lambda on the diagonal
\* entries only and returns a weight vector of length n_features.
C7_RidgeShape ==
    (model = "linear_regression" /\ solved.status # "not called") =>
        /\ solved.status = "ok"
        /\ \A r, c \in 1..Len(orig_train[1][1]) :
              solved.regularized[r][c] = RidgeMatrix(orig_train[1])[r][c]
        /\ Len(solved.w) = Len(orig_train[1][1])

\* the steps of an epoch in order, read off the lengths of the lists: both
\* losses have one entry per finished epoch, the train loss is appended
\* after all updates and before the test loss, the distance last
C8_StepsAndCounts ==
    /\ (pc \in {"loop", "done"} =>
          /\ Len(train_losses) = epoch
          /\ Len(test_losses) = epoch)
    /\ (pc = "train" =>
          /\ Len(train_losses) = epoch
          /\ Len(test_losses) = epoch)
    /\ (pc = "eval_test" =>
          /\ Len(calls) = n_points
          /\ Len(train_losses) = epoch + 1
          /\ Len(test_losses) = epoch)
    /\ (pc = "dist" =>
          /\ Len(train_losses) = epoch + 1
          /\ Len(test_losses) = epoch + 1)
    /\ (pc \in {"loop", "done", "train", "eval_test", "dist"} =>
          Len(dist_opt) = IF model = "linear_regression" THEN epoch ELSE 0)
    /\ epoch <= opt_epochs

\* the loop, once entered, ends after exactly opt.epochs epochs
C8_EndsAfterAllEpochs ==
    (Constructed /\ pc \in {"done", "failed"}) =>
        /\ pc = "done"
        /\ epoch = opt_epochs
        /\ Len(train_losses) = opt_epochs
        /\ Len(test_losses) = opt_epochs

\* C8: the training loop ends after exactly N epochs; every epoch runs
\* shuffle, all updates, the train evaluation, the test evaluation and the
\* distance recording in that order; after epoch k both loss lists have k
\* entries and the distance list has k entries for the linear model and none
\* for the neural one.
C8_ExactlyNEpochs == C8_StepsAndCounts /\ C8_EndsAfterAllEpochs

====
